---- MODULE Spec2Model ----
(***************************************************************************)
(* Model of vmruntime/cloud_logging.py: CloudLoggingHandler, a             *)
(* logging.handlers.RotatingFileHandler that formats each record as one    *)
(* JSON line and appends it to /var/log/app_engine/app.<pid>.json.         *)
(*                                                                         *)
(* The handler overrides only __init__ and format; handle, emit,           *)
(* shouldRollover, doRollover and handleError are the ones it inherits     *)
(* from the logging package, and are modelled as that package runs them.   *)
(***************************************************************************)
EXTENDS Integers, Sequences, FiniteSets, TLC

(***************************************************************************)
(* Program constants and bounds of the model.                              *)
(***************************************************************************)

\* maxBytes handed to RotatingFileHandler; the program's value is
\* 128 * 1024 * 1024, scaled down here so that a few lines cross it.
MAX_LOG_BYTES == 5

\* backupCount handed to RotatingFileHandler.
LOG_FILE_COUNT == 3

\* Longest formatted line (without its terminator) a record may have.
MaxLine == 5

\* Number of logging calls made in one behaviour.
MaxWrites == 5

\* Failing file-system operations in one behaviour.
MaxFaults == 2

\* Number of logging calls made in one behaviour of several threads.
MaxThreadWrites == 3

\* The threads that may log through the one handler.
Threads == {1, 2}
NoFile == <<[rid |-> 0, part |-> "absent", n |-> 0]>>
NoRec == [rid |-> 0, len |-> 0]
NoInfo == [size |-> 0, roll |-> FALSE, rotations |-> 0, prior |-> <<>>]

\* File generations: 0 is baseFilename, i is baseFilename.i.  One name past
\* backupCount is kept in view so that a file left beyond it is observable.
Gens == 0..(LOG_FILE_COUNT + 1)

Rids == 1..MaxWrites

Min(a, b) == IF a <= b THEN a ELSE b

(***************************************************************************)
(* State of the sink.                                                      *)
(***************************************************************************)
VARIABLES
    files,      \* generation -> NoFile or the sequence of chunks written
    stream,     \* TRUE when self.stream is an open handle on baseFilename
    lock,       \* the set of threads holding Handler.lock
    pc,         \* thread -> position inside Handler.handle / emit
    cur,        \* thread -> record it is logging: [rid, len], or NoRec
    nextRid,    \* number of logging calls made so far
    info,       \* thread -> what shouldRollover saw for the current record
    rotations,  \* number of completed doRollover calls
    rotated,    \* contents rotated out of baseFilename, most recent first
    written,    \* record ids in the order their write began
    outcome,    \* record id -> how the logging call ended for its caller
    errors,     \* record ids whose emit hit a failing file-system operation
    stderr,     \* record ids handleError reported on sys.stderr
    fsops,      \* record id -> number of emit() runs made for it
    threads,    \* the threads that log in this behaviour
    calls       \* the number of logging calls they make in all

(***************************************************************************)
(* State of one call of format, and of the paths two processes use.        *)
(***************************************************************************)
VARIABLES
    record,     \* the LogRecord handed to format
    environ,    \* os.environ's HTTP_X_CLOUD_TRACE_CONTEXT, or NoEnv
    payload,    \* the dict format assembles
    result,     \* what format returns or raises
    fmtpc,      \* "call" before format ran, "done" after
    pid,        \* process -> os.getpid()
    touched     \* process -> paths its handler created or renamed to

fmtVars == <<record, environ, payload, result, fmtpc>>
pathVars == <<pid, touched>>
vars == <<files, stream, lock, pc, cur, nextRid, info, rotations, rotated,
          written, outcome, errors, stderr, fsops, threads, calls, record, environ, payload,
          result, fmtpc, pid, touched>>

sinkVars == <<files, stream, lock, pc, cur, nextRid, info, rotations, rotated,
              written, outcome, errors, stderr, fsops, threads, calls>>

RECURSIVE Size(_)
\* stream.seek(0, 2); stream.tell(): the byte size of the file.
Size(f) == IF f = <<>> THEN 0 ELSE Head(f).n + Size(Tail(f))

\* msg = "%s\n" % self.format(record); len(msg)
MsgLen(r) == r.len + 1

\* shouldRollover: if self.stream.tell() + len(msg) >= self.maxBytes: return 1
\* (ShouldRolloverStrict: the same test with > in place of >=).
ShouldRolloverStrict(f, r) == Size(f) + MsgLen(r) > MAX_LOG_BYTES
shouldRollover(f, r) == Size(f) + MsgLen(r) >= MAX_LOG_BYTES

\* self.stream = self._open(): mode 'a' creates the file or keeps its content.
Open(f) == IF f[0] = NoFile THEN [f EXCEPT ![0] = <<>>] ELSE f

\* Number of file-system operations after which none of a rollover can fail.
NoFault == 2 * LOG_FILE_COUNT + 2

RECURSIVE Shift(_, _, _)
\* for i in range(..., 0, -1): if exists(sfn): if exists(dfn): remove(dfn);
\* rename(sfn, dfn).  n is the number of operations that still succeed; the
\* one after them raises.
Shift(f, i, n) ==
    IF i = 0 THEN [files |-> f, left |-> n, ok |-> TRUE]
    ELSE IF f[i] = NoFile THEN Shift(f, i - 1, n)
    ELSE LET needRemove == f[i + 1] # NoFile
             f1 == IF needRemove THEN [f EXCEPT ![i + 1] = NoFile] ELSE f
             n1 == IF needRemove THEN n - 1 ELSE n
         IN  IF needRemove /\ n = 0
                 THEN [files |-> f, left |-> 0, ok |-> FALSE]
             ELSE IF n1 = 0
                 THEN [files |-> f1, left |-> 0, ok |-> FALSE]
             ELSE Shift([f1 EXCEPT ![i + 1] = f[i], ![i] = NoFile], i - 1, n1 - 1)

\* The tail of doRollover: dfn = baseFilename + ".1"; remove it if it exists,
\* rename baseFilename to it, reopen the stream.
Finish(f, n) ==
    LET needRemove == f[1] # NoFile
        f1 == IF needRemove THEN [f EXCEPT ![1] = NoFile] ELSE f
        n1 == IF needRemove THEN n - 1 ELSE n
        hasBase == f1[0] # NoFile
        f2 == IF hasBase THEN [f1 EXCEPT ![1] = f1[0], ![0] = NoFile] ELSE f1
        n2 == IF hasBase THEN n1 - 1 ELSE n1
    IN  IF needRemove /\ n = 0 THEN [files |-> f, ok |-> FALSE]
        ELSE IF hasBase /\ n1 = 0 THEN [files |-> f1, ok |-> FALSE]
        ELSE IF n2 = 0 THEN [files |-> f2, ok |-> FALSE]
        ELSE [files |-> Open(f2), ok |-> TRUE]

\* A rollover whose loop starts one generation too high.
doRolloverFromCount(f, n) ==
    LET s == Shift(f, LOG_FILE_COUNT, n)
    IN  IF s.ok THEN Finish(s.files, s.left) ELSE [files |-> s.files, ok |-> FALSE]

\* RotatingFileHandler.doRollover with backupCount = LOG_FILE_COUNT.
doRollover(f, n) ==
    LET s == Shift(f, LOG_FILE_COUNT - 1, n)
    IN  IF s.ok THEN Finish(s.files, s.left) ELSE [files |-> s.files, ok |-> FALSE]

\* Handler.acquire(): the handler's lock admits one thread.
CanAcquireUnlocked(t) == TRUE
CanAcquire(t) == lock = {}

\* Handler.handleError: with logging.raiseExceptions the traceback goes to
\* sys.stderr; the exception is not raised again.
handleErrorReraise(se, r) == [stderr |-> se, reraise |-> TRUE]
handleError(se, r) == [stderr |-> se \cup {r}, reraise |-> FALSE]

\* The two writes that put msg + terminator into the file.
LineChunk(r) == [rid |-> r.rid, part |-> "line", n |-> r.len]
NlChunk(r) == [rid |-> r.rid, part |-> "nl", n |-> 1]

(***************************************************************************)
(* The sink: Handler.handle -> BaseRotatingHandler.emit, one thread each.  *)
(***************************************************************************)

\* A thread calls the logger with a record whose formatted line has len bytes.
Call(t, len) ==
    /\ pc[t] = "idle"
    /\ nextRid < calls
    /\ nextRid' = nextRid + 1
    /\ cur' = [cur EXCEPT ![t] = [rid |-> nextRid + 1, len |-> len]]
    /\ outcome' = [outcome EXCEPT ![nextRid + 1] = "pending"]
    /\ pc' = [pc EXCEPT ![t] = "handle"]
    /\ UNCHANGED <<files, stream, lock, info, rotations, rotated, written,
                   errors, stderr, fsops>>
    /\ UNCHANGED <<threads, calls, fmtVars, pathVars>>

\* Handler.handle: self.acquire()
Acquire(t) ==
    /\ pc[t] = "handle"
    /\ CanAcquire(t)
    /\ lock' = {t}
    /\ pc' = [pc EXCEPT ![t] = "emit"]
    /\ UNCHANGED <<files, stream, cur, nextRid, info, rotations, rotated,
                   written, outcome, errors, stderr, fsops>>
    /\ UNCHANGED <<threads, calls, fmtVars, pathVars>>

\* emit: if self.shouldRollover(record); the stream is reopened first when a
\* failed rollover left it closed.
CheckRollover(t) ==
    /\ pc[t] = "emit"
    /\ LET f == IF stream THEN files ELSE Open(files)
           roll == shouldRollover(f[0], cur[t])
       IN  /\ files' = f
           /\ info' = [info EXCEPT ![t] = [size |-> Size(f[0]), roll |-> roll,
                                           rotations |-> rotations,
                                           prior |-> f[0]]]
           /\ pc' = [pc EXCEPT ![t] = IF roll THEN "rollover" ELSE "write"]
    /\ stream' = TRUE
    /\ fsops' = [fsops EXCEPT ![cur[t].rid] = @ + 1]
    /\ UNCHANGED <<lock, cur, nextRid, rotations, rotated, written, outcome,
                   errors, stderr>>
    /\ UNCHANGED <<threads, calls, fmtVars, pathVars>>

\* emit: self.doRollover(), every file-system operation succeeding.
Rollover(t) ==
    /\ pc[t] = "rollover"
    /\ LET r == doRollover(files, NoFault)
       IN  /\ r.ok
           /\ files' = r.files
    /\ stream' = TRUE
    /\ rotations' = rotations + 1
    /\ rotated' = SubSeq(<<files[0]>> \o rotated, 1,
                         Min(Len(rotated) + 1, LOG_FILE_COUNT + 1))
    /\ pc' = [pc EXCEPT ![t] = "write"]
    /\ UNCHANGED <<lock, cur, nextRid, info, written, outcome, errors, stderr,
                   fsops>>
    /\ UNCHANGED <<threads, calls, fmtVars, pathVars>>

\* FileHandler.emit -> StreamHandler.emit: stream.write(msg + terminator),
\* reaching the file in two writes; this is the first.
WriteLine(t) ==
    /\ pc[t] = "write"
    /\ LET f == IF stream THEN files ELSE Open(files)
       IN  files' = [f EXCEPT ![0] = Append(@, LineChunk(cur[t]))]
    /\ stream' = TRUE
    /\ written' = Append(written, cur[t].rid)
    /\ pc' = [pc EXCEPT ![t] = "flush"]
    /\ UNCHANGED <<lock, cur, nextRid, info, rotations, rotated, outcome,
                   errors, stderr, fsops>>
    /\ UNCHANGED <<threads, calls, fmtVars, pathVars>>

\* The second write, and self.flush().
WriteNl(t) ==
    /\ pc[t] = "flush"
    /\ files[0] # NoFile
    /\ files' = [files EXCEPT ![0] = Append(@, NlChunk(cur[t]))]
    /\ pc' = [pc EXCEPT ![t] = "release"]
    /\ UNCHANGED <<stream, lock, cur, nextRid, info, rotations, rotated,
                   written, outcome, errors, stderr, fsops>>
    /\ UNCHANGED <<threads, calls, fmtVars, pathVars>>

\* Handler.handle: finally: self.release(); the call returns to its caller,
\* or the exception emit let through goes on to it.
Release(t) ==
    /\ pc[t] \in {"release", "unwind"}
    /\ lock' = {}
    /\ outcome' = [outcome EXCEPT ![cur[t].rid] =
                      IF pc[t] = "unwind" THEN "raised" ELSE "returned"]
    /\ cur' = [cur EXCEPT ![t] = NoRec]
    /\ info' = [info EXCEPT ![t] = NoInfo]
    /\ pc' = [pc EXCEPT ![t] = "idle"]
    /\ UNCHANGED <<files, stream, nextRid, rotations, rotated, written,
                   errors, stderr, fsops>>
    /\ UNCHANGED <<threads, calls, fmtVars, pathVars>>

\* emit: except Exception: self.handleError(record), when a file-system
\* operation of the emit raised.
Raise(t) ==
    LET h == handleError(stderr, cur[t].rid)
    IN  /\ Cardinality(errors) < MaxFaults
        /\ stderr' = h.stderr
        /\ errors' = errors \cup {cur[t].rid}
        /\ pc' = [pc EXCEPT ![t] = IF h.reraise THEN "unwind" ELSE "release"]

\* shouldRollover: self.stream = self._open() raises.
OpenFails(t) ==
    /\ pc[t] = "emit"
    /\ ~stream
    /\ Raise(t)
    /\ fsops' = [fsops EXCEPT ![cur[t].rid] = @ + 1]
    /\ UNCHANGED <<files, stream, lock, cur, nextRid, info, rotations, rotated,
                   written, outcome>>
    /\ UNCHANGED <<threads, calls, fmtVars, pathVars>>

\* doRollover: the operation after the first n raises (a remove, a rename or
\* the reopening); the stream was closed on entry.
RolloverFails(t, n) ==
    /\ pc[t] = "rollover"
    /\ LET r == doRollover(files, n)
       IN  /\ ~r.ok
           /\ files' = r.files
    /\ stream' = FALSE
    /\ Raise(t)
    /\ UNCHANGED <<lock, cur, nextRid, info, rotations, rotated, written,
                   outcome, fsops>>
    /\ UNCHANGED <<threads, calls, fmtVars, pathVars>>

\* StreamHandler.emit: stream.write raises before any byte reached the file.
WriteFails(t) ==
    /\ pc[t] = "write"
    /\ Raise(t)
    /\ UNCHANGED <<files, stream, lock, cur, nextRid, info, rotations, rotated,
                   written, outcome, fsops>>
    /\ UNCHANGED <<threads, calls, fmtVars, pathVars>>

LineLens == 1..MaxLine

SinkInit(ths, n) ==
    /\ threads = ths
    /\ calls = n
    /\ files = [g \in Gens |-> IF g = 0 THEN <<>> ELSE NoFile]
    /\ stream = TRUE
    /\ lock = {}
    /\ pc = [t \in Threads |-> "idle"]
    /\ cur = [t \in Threads |-> NoRec]
    /\ nextRid = 0
    /\ info = [t \in Threads |-> NoInfo]
    /\ rotations = 0
    /\ rotated = <<>>
    /\ written = <<>>
    /\ outcome = [r \in Rids |-> "none"]
    /\ errors = {}
    /\ stderr = {}
    /\ fsops = [r \in Rids |-> 0]

SinkNext ==
    \/ \E t \in threads, len \in LineLens : Call(t, len)
    \/ \E t \in threads : Acquire(t)
    \/ \E t \in threads : CheckRollover(t)
    \/ \E t \in threads : Rollover(t)
    \/ \E t \in threads : WriteLine(t)
    \/ \E t \in threads : WriteNl(t)
    \/ \E t \in threads : Release(t)

FaultNext ==
    \/ \E t \in threads : OpenFails(t)
    \/ \E t \in threads, n \in 0..(NoFault - 1) : RolloverFails(t, n)
    \/ \E t \in threads : WriteFails(t)

(***************************************************************************)
(* CloudLoggingHandler.format.                                             *)
(***************************************************************************)

\* Python values a record field may hold.
PyNone == [t |-> "None"]
PyStr(s) == [t |-> "str", v |-> s]
PyInt(n) == [t |-> "int", v |-> n]
PyObject == [t |-> "object"]   \* any value json has no encoding for; truthy
NoEnv == <<"unset">>
NoKey == [t |-> "no key"]

\* record.created is Sec + Frac / FracDen seconds, the fraction exact.
FracDen == 2048
NANOS == 1000000000

\* Python truth value: "if trace_id" / "if not trace_id".
Truthy(x) ==
    CASE x.t = "None" -> FALSE
      [] x.t = "str" -> x.v # <<>>
      [] x.t = "int" -> x.v # 0
      [] OTHER -> TRUE

RECURSIVE SplitFirst(_)
\* s.split('/')[0]
SplitWhole(s) == s
SplitFirst(s) ==
    IF s = <<>> \/ Head(s) = "/" THEN <<>> ELSE <<Head(s)>> \o SplitFirst(Tail(s))

\* os.getenv('HTTP_X_CLOUD_TRACE_CONTEXT', '')
Getenv(env) == IF env = NoEnv THEN <<>> ELSE env

\* trace_id = getattr(record, 'trace_id', None); if not trace_id: trace_id =
\* os.getenv(...).split('/')[0]
TraceIdHeaderFirst(rec, env) ==
    IF SplitFirst(Getenv(env)) # <<>> THEN PyStr(SplitFirst(Getenv(env)))
    ELSE rec.trace_id
TraceId(rec, env) ==
    IF Truthy(rec.trace_id) THEN rec.trace_id ELSE PyStr(SplitFirst(Getenv(env)))

\* int(subsecond * 1e9) for subsecond = k / FracDen, computed without
\* leaving the 32-bit range: k * NANOS = k * (FracDen * a + b).
NanosRounded(k) ==
    k * (NANOS \div FracDen)
        + (2 * k * (NANOS % FracDen) + FracDen) \div (2 * FracDen)
Nanos(k) == k * (NANOS \div FracDen) + (k * (NANOS % FracDen)) \div FracDen

\* payload = {...}; if trace_id: payload['traceId'] = trace_id
Payload(rec, env) ==
    [message |-> rec.message,
     timestamp |-> [seconds |-> PyInt(rec.sec), nanos |-> PyInt(Nanos(rec.frac))],
     thread |-> rec.thread,
     severity |-> rec.levelname,
     traceId |-> IF Truthy(TraceId(rec, env)) THEN TraceId(rec, env) ELSE NoKey]

\* json.dumps of one value: the JSON text of it, or nothing for a value the
\* encoder rejects with TypeError.
Encodable(x) == x.t \in {"None", "str", "int"}
Encode(x) ==
    CASE x.t = "None" -> [json |-> "null"]
      [] x.t = "str" -> [json |-> "string", v |-> x.v]
      [] x.t = "int" -> [json |-> "number", v |-> x.v]

\* return json.dumps(payload)
Dumps(p) ==
    IF /\ Encodable(p.thread)
       /\ p.traceId = NoKey \/ Encodable(p.traceId)
    THEN [ok |-> TRUE,
          line |-> [message |-> Encode(p.message),
                    seconds |-> Encode(p.timestamp.seconds),
                    nanos |-> Encode(p.timestamp.nanos),
                    thread |-> Encode(p.thread),
                    severity |-> Encode(p.severity),
                    traceId |-> IF p.traceId = NoKey THEN NoKey
                                ELSE Encode(p.traceId)]]
    ELSE [ok |-> FALSE, line |-> "TypeError"]

\* Bounds of the inputs of format.
MaxSec == 1
MaxFrac == 4
MaxHeader == 3
MaxTrace == 2

RECURSIVE Strings(_, _)
\* All strings over alphabet of length at most n.
Strings(alphabet, n) ==
    IF n = 0 THEN {<<>>}
    ELSE LET shorter == Strings(alphabet, n - 1)
         IN  shorter \cup {<<c>> \o s : c \in alphabet, s \in shorter}

Fracs == (0..MaxFrac) \cup ((FracDen - 1 - MaxFrac)..(FracDen - 1))
Headers == Strings({"a", "/"}, MaxHeader) \cup {NoEnv}
TraceIds == {PyNone, PyObject} \cup {PyStr(s) : s \in Strings({"b", "/"}, MaxTrace)}

Records ==
    [message : {PyStr(<<"m">>)},
     sec : 0..MaxSec,
     frac : Fracs,
     thread : {PyInt(7), PyNone},
     levelname : {PyStr(<<"INFO">>), PyStr(<<"ERROR">>)},
     trace_id : TraceIds]

NoPayload == <<"none">>

FormatInit ==
    /\ record \in Records
    /\ environ \in Headers
    /\ payload = NoPayload
    /\ result = NoPayload
    /\ fmtpc = "call"

\* handler.format(record)
Format ==
    /\ fmtpc = "call"
    /\ payload' = Payload(record, environ)
    /\ result' = Dumps(Payload(record, environ))
    /\ fmtpc' = "done"
    /\ UNCHANGED <<record, environ>>
    /\ UNCHANGED <<sinkVars, pathVars>>

FormatIdle ==
    /\ record = [message |-> PyStr(<<"m">>), sec |-> 0, frac |-> 0,
                 thread |-> PyNone, levelname |-> PyStr(<<"INFO">>),
                 trace_id |-> PyNone]
    /\ environ = NoEnv
    /\ payload = NoPayload
    /\ result = NoPayload
    /\ fmtpc = "call"

(***************************************************************************)
(* The paths a process's handler uses.                                     *)
(***************************************************************************)

\* Largest process identifier drawn.
MaxPid == 12

Procs == {1, 2}

DigitChar(d) == <<"0", "1", "2", "3", "4", "5", "6", "7", "8", "9">>[d + 1]

RECURSIVE Decimal(_)
\* '{pid}'.format(pid=n) and "%d" % n, for n >= 0
Decimal(n) ==
    IF n < 10 THEN <<DigitChar(n)>>
    ELSE Decimal(n \div 10) \o <<DigitChar(n % 10)>>

\* LOG_PATH_TEMPLATE = '/var/log/app_engine/app.{pid}.json'
LOG_PATH_TEMPLATE(p) ==
    <<"/var/log/app_engine/", "a", "p", "p", ".">> \o p
        \o <<".", "j", "s", "o", "n">>

\* filename = LOG_PATH_TEMPLATE.format(pid=os.getpid())
baseFilenameShared(p) == LOG_PATH_TEMPLATE(<<>>)
baseFilename(p) == LOG_PATH_TEMPLATE(Decimal(p))

\* doRollover: "%s.%d" % (self.baseFilename, i)
backupName(base, i) == base \o <<".">> \o Decimal(i)

PathInit ==
    /\ pid \in {f \in [Procs -> 1..MaxPid] : f[1] # f[2]}
    /\ touched = [p \in Procs |-> {}]

PathIdle ==
    /\ pid = [p \in Procs |-> p]
    /\ touched = [p \in Procs |-> {}]

\* CloudLoggingHandler(): the stream on baseFilename is opened.
Construct(p) ==
    /\ touched[p] = {}
    /\ touched' = [touched EXCEPT ![p] = {baseFilename(pid[p])}]
    /\ UNCHANGED pid
    /\ UNCHANGED <<sinkVars, fmtVars>>

\* A rollover of the process's handler: with n backups so far it renames into
\* the generations 1..n+1, up to backupCount.
PathRollover(p) ==
    /\ touched[p] # {}
    /\ Cardinality(touched[p]) <= LOG_FILE_COUNT
    /\ touched' = [touched EXCEPT ![p] =
                      @ \cup {backupName(baseFilename(pid[p]), i) :
                                  i \in 1..Cardinality(touched[p])}]
    /\ UNCHANGED pid
    /\ UNCHANGED <<sinkVars, fmtVars>>

PathNext ==
    \/ \E p \in Procs : Construct(p)
    \/ \E p \in Procs : PathRollover(p)

(***************************************************************************)
(* Specifications.                                                         *)
(***************************************************************************)

\* The sink, every file-system operation succeeding.
Init == SinkInit({1}, MaxWrites) /\ FormatIdle /\ PathIdle
Next == SinkNext
Spec == Init /\ [][Next]_vars

\* The sink, file-system operations failing at will.
NextIO == SinkNext \/ FaultNext
SpecIO == Init /\ [][NextIO]_vars

\* The sink with several threads logging through it.
InitThreads == SinkInit(Threads, MaxThreadWrites) /\ FormatIdle /\ PathIdle
SpecThreads == InitThreads /\ [][Next]_vars

\* One call of format on any record and environment.
InitFormat == SinkInit({1}, MaxWrites) /\ FormatInit /\ PathIdle
SpecFormat == InitFormat /\ [][Format]_vars

\* Two processes constructing and rotating their handlers.
InitPaths == SinkInit({1}, MaxWrites) /\ FormatIdle /\ PathInit
SpecPaths == InitPaths /\ [][PathNext]_vars

(***************************************************************************)
(* Properties of the sink.                                                 *)
(***************************************************************************)

Backups == {g \in Gens \ {0} : files[g] # NoFile}

\* The threads past the size check of their record.
Deciding == {t \in Threads : pc[t] \in {"write", "flush", "release"}
                               /\ cur[t].rid \notin errors}
Writing == {t \in Threads : pc[t] \in {"flush", "release"}
                              /\ cur[t].rid \notin errors}

\* The chunks of record r as they lie in a file once written.
Line(r) == <<LineChunk(r), NlChunk(r)>>

RECURSIVE RidsOf(_)
\* The records that begin in a file, in file order.
RidsOf(f) ==
    IF f = <<>> THEN <<>>
    ELSE IF Head(f).part = "line" THEN <<Head(f).rid>> \o RidsOf(Tail(f))
    ELSE RidsOf(Tail(f))

RECURSIVE Retained(_)
\* The records of generations g, g-1, ..., 0: oldest file first.
Retained(g) ==
    IF g = 0 THEN RidsOf(files[0]) ELSE RidsOf(files[g]) \o Retained(g - 1)

IsSuffix(s, w) ==
    /\ Len(s) <= Len(w)
    /\ s = SubSeq(w, Len(w) - Len(s) + 1, Len(w))

RECURSIVE Complete(_)
\* f is a sequence of whole records: each line chunk followed by the
\* terminator chunk of the same record.
Complete(f) ==
    \/ f = <<>>
    \/ /\ Len(f) >= 2
       /\ f[1].part = "line" /\ f[2].part = "nl" /\ f[2].rid = f[1].rid
       /\ Complete(Tail(Tail(f)))

\* C3 as amended: a write is preceded by a rotation exactly when the file
\* size plus the line and its terminator reaches or exceeds maxBytes; that is
\* one rotation, after which backup 1 is the prior active file and the active
\* file holds the record alone; the retained files hold the most recent
\* records once each, in write order.
RotationAtReachOrExceed ==
    /\ \A t \in Deciding :
          /\ info[t].roll <=> (info[t].size + MsgLen(cur[t]) >= MAX_LOG_BYTES)
          /\ rotations = info[t].rotations + (IF info[t].roll THEN 1 ELSE 0)
          /\ info[t].roll => files[1] = info[t].prior
    /\ \A t \in Writing :
          LET mine == IF pc[t] = "flush" THEN <<LineChunk(cur[t])>>
                      ELSE Line(cur[t])
          IN  files[0] = IF info[t].roll THEN mine ELSE info[t].prior \o mine
    /\ IsSuffix(Retained(LOG_FILE_COUNT + 1), written)

\* C3 as stated: rotation exactly when the size would exceed maxBytes, not
\* when it would only reach it.
RotationOnlyWhenExceeding ==
    \A t \in Deciding :
        info[t].roll <=> (info[t].size + MsgLen(cur[t]) > MAX_LOG_BYTES)

\* A rotation at a crossing: the prior file held two records, and the record
\* that crossed is written.
RotatedAtCrossing ==
    \E t \in Threads :
        /\ pc[t] = "release" /\ info[t].roll
        /\ Len(info[t].prior) >= 4
        /\ rotations >= 2
        /\ files[2] # NoFile

\* C4: at most LOG_FILE_COUNT backups exist and at most LOG_FILE_COUNT + 1
\* files in all; generation i holds what the i-th most recent rotation moved
\* out of the active file, and after more than LOG_FILE_COUNT rotations
\* exactly LOG_FILE_COUNT backups exist and no older generation.
BackupsBounded ==
    /\ Cardinality(Backups) <= LOG_FILE_COUNT
    /\ Cardinality({g \in Gens : files[g] # NoFile}) <= LOG_FILE_COUNT + 1
    /\ \A g \in 1..Min(rotations, LOG_FILE_COUNT) : files[g] = rotated[g]
    /\ rotations > LOG_FILE_COUNT => Backups = 1..LOG_FILE_COUNT

\* More rotations than backupCount, the newest backup holding two records.
RotatedPastCount ==
    /\ rotations > LOG_FILE_COUNT
    /\ Len(files[1]) >= 4
    /\ files[LOG_FILE_COUNT] # files[1]

\* C5 as amended: the active file is smaller than maxBytes, unless it holds
\* one record alone whose line and terminator are maxBytes or more.
ActiveBelowMaxUnlessAlone ==
    \/ Size(files[0]) < MAX_LOG_BYTES
    \/ /\ \A i \in 1..Len(files[0]) : files[0][i].rid = files[0][1].rid
       /\ files[0][1].n + 1 >= MAX_LOG_BYTES

\* C5 as stated: the active file never exceeds maxBytes.
ActiveNeverExceedsMax == Size(files[0]) <= MAX_LOG_BYTES

\* A line longer than maxBytes was written, after a rotation.
OversizedLineWritten ==
    /\ Size(files[0]) > MAX_LOG_BYTES
    /\ rotations >= 1
    /\ \A t \in Threads : pc[t] = "idle"

\* C6: the size check, the rotation and the append of a record run under the
\* handler's lock: one thread at a time is inside them, every file is made of
\* whole records but for the one being appended at the end of the active
\* file, and that one stays where its thread is writing it.
EmitIsCriticalSection ==
    /\ Cardinality({t \in Threads :
            pc[t] \in {"emit", "rollover", "write", "flush", "release"}}) <= 1
    /\ \A t \in Threads : pc[t] \notin {"idle", "handle"} => lock = {t}
    /\ \A g \in Backups : Complete(files[g])
    /\ files[0] # NoFile
    /\ IF \E t \in Threads : pc[t] = "flush"
       THEN LET t == CHOOSE u \in Threads : pc[u] = "flush"
            IN  /\ Len(files[0]) >= 1
                /\ files[0][Len(files[0])] = LineChunk(cur[t])
                /\ Complete(SubSeq(files[0], 1, Len(files[0]) - 1))
       ELSE Complete(files[0])

\* One thread is between the two writes of its record, after a rotation,
\* while the other waits for the lock with a record of its own.
ContendedWrite ==
    \E t, u \in Threads :
        /\ pc[t] = "flush" /\ info[t].roll
        /\ pc[u] = "handle"
        /\ cur[u].rid < cur[t].rid

IsTraceOf(p, h) ==
    \E k \in 0..Len(h) :
        /\ p = SubSeq(h, 1, k)
        /\ \A i \in 1..k : h[i] # "/"
        /\ k = Len(h) \/ h[k + 1] = "/"

JsonString(s) == [json |-> "string", v |-> s]

\* C1: a record's own non-empty trace id is the payload's traceId, unchanged,
\* whatever the header holds.
ExplicitTraceIdWins ==
    fmtpc = "done" =>
        /\ Truthy(record.trace_id) => payload.traceId = record.trace_id
        /\ record.trace_id.t = "str" /\ record.trace_id.v # <<>> =>
              /\ result.ok
              /\ result.line.traceId = JsonString(record.trace_id.v)

\* A record with a trace id of its own, formatted under a header that names
\* another trace.
ExplicitOverHeader ==
    /\ fmtpc = "done"
    /\ record.trace_id = PyStr(<<"b", "/">>)
    /\ environ = <<"a", "/", "a">>

\* C2: without a trace id of its own (absent or empty) the record gets the
\* part of the header before its first '/', and no traceId key at all when
\* that part is empty.
HeaderTraceId ==
    fmtpc = "done" /\ record.trace_id \in {PyNone, PyStr(<<>>)} =>
        \A p \in Strings({"a", "/"}, MaxHeader) :
            IsTraceOf(p, Getenv(environ)) =>
                /\ result.ok
                /\ IF p # <<>>
                   THEN /\ payload.traceId = PyStr(p)
                        /\ result.line.traceId = JsonString(p)
                   ELSE /\ payload.traceId = NoKey
                        /\ result.line.traceId = NoKey

\* A header with options after the trace id, and no trace id on the record.
HeaderWithOptions ==
    /\ fmtpc = "done"
    /\ record.trace_id = PyNone
    /\ environ = <<"a", "a", "/">>
    /\ payload.traceId = PyStr(<<"a", "a">>)

\* The part of frac * NANOS / FracDen that d = nanos - frac * (NANOS \div
\* FracDen) has to account for, in units of 1 / FracDen nanoseconds.
FracRest == record.frac * (NANOS % FracDen)
NanosRest == payload.timestamp.nanos.v - record.frac * (NANOS \div FracDen)

\* C8 as amended: seconds is the whole part of created and nanos is the
\* fraction times 1e9 cut to an integer (not rounded): 0 <= nanos < 1e9 and
\* nanos <= fraction * 1e9 < nanos + 1.
TimestampTruncated ==
    fmtpc = "done" =>
        /\ payload.timestamp.seconds = PyInt(record.sec)
        /\ payload.timestamp.nanos.v >= 0
        /\ payload.timestamp.nanos.v < NANOS
        /\ NanosRest * FracDen <= FracRest
        /\ FracRest < (NanosRest + 1) * FracDen
        /\ result.ok =>
              /\ result.line.seconds = [json |-> "number", v |-> record.sec]
              /\ result.line.nanos =
                     [json |-> "number", v |-> payload.timestamp.nanos.v]

\* C8 as stated: nanos is the fraction times 1e9 rounded to the nearest
\* integer.
TimestampRounded ==
    fmtpc = "done" =>
        /\ payload.timestamp.seconds = PyInt(record.sec)
        /\ 2 * (FracRest - NanosRest * FracDen) <= FracDen

\* A creation time whose fraction lies above the half nanosecond.
FractionAboveHalf ==
    /\ fmtpc = "done"
    /\ record.sec = 1
    /\ 2 * (FracRest % FracDen) > FracDen

\* C9: format returns a JSON line for every record, a value json cannot
\* encode being written as its string form.
FormatNeverFails ==
    fmtpc = "done" =>
        /\ result.ok
        /\ record.trace_id = PyObject => result.line.traceId.json = "string"

(***************************************************************************)
(* Properties of the paths.                                                *)
(***************************************************************************)

\* C10: no path of one process, active or backup, is a path of a process
\* with another pid.
PathsDisjoint ==
    \A p, q \in Procs :
        pid[p] # pid[q] => touched[p] \cap touched[q] = {}

\* Both processes hold their active file and all their backups, the pid of
\* one being a prefix of the other's.
BothRotated ==
    /\ pid[1] = 1 /\ pid[2] = 11
    /\ \A p \in Procs : Cardinality(touched[p]) = LOG_FILE_COUNT + 1

====
